---- MODULE Spec2Model ----
(***************************************************************************)
(* Workflow scheduler of the multi-agent orchestrator                      *)
(* (backend/app/core/orchestrator.py).                                     *)
(*                                                                         *)
(* One asyncio event loop runs everything, so an action of this module is  *)
(* the code executed between two suspension points of one coroutine:       *)
(*   - the scheduler coroutine _execute_workflow runs from its start (or   *)
(*     from the wake-up after asyncio.gather) to the next gather or to its *)
(*     return;                                                             *)
(*   - a step coroutine _execute_step runs from its start to the await of  *)
(*     the agent call, and from the end of the agent call to its return;   *)
(*   - create_workflow runs to its intent-analysis call, from there to its *)
(*     planning call, and from there to its return;                        *)
(*   - pause_workflow, resume_workflow, cancel_workflow and                *)
(*     cleanup_completed_workflows contain no suspension point.            *)
(* Task.cancel() only requests the cancellation: the step coroutines of    *)
(* the cancelled gather get CancelledError at the await they are parked on *)
(* (or are never started), and the scheduler coroutine runs its finally    *)
(* block in a later turn of the event loop.  CancelledError is not an      *)
(* Exception (Python >= 3.8; the code base needs >= 3.9), so neither       *)
(* `except Exception` handler sees it.  The order in which the loop runs   *)
(* the coroutines that are ready, and the moment at which an agent call    *)
(* ends or a pause, resume or cancel call arrives, are left open.          *)
(***************************************************************************)
EXTENDS Integers, Sequences, FiniteSets, TLC

VARIABLES
    workflows,          \* self.workflows: workflow id -> Workflow
    running_workflows,  \* self.running_workflows: workflow id -> task
    tasks,              \* the asyncio tasks created for _execute_workflow
    cancel_returned,    \* history: ids for which cancel_workflow returned True
    create_calls,       \* calls of create_workflow: workflow id -> position
    now,                \* datetime.now(), in ticks of the retention clock
    cleanup_returned,   \* last value returned by cleanup_completed_workflows
    a2a,                \* a call sequence on A2AProtocol (core/a2a.py)
    router,             \* a call of RouterAgent.process_message (agents/router.py)
    long_runner         \* the LongRunner and its coroutines (core/longrunner.py)

vars == <<workflows, running_workflows, tasks, cancel_returned,
          create_calls, now, cleanup_returned, a2a, router, long_runner>>

\* The state of the orchestrator
orchestrator == <<workflows, running_workflows, tasks, cancel_returned,
                  create_calls, now, cleanup_returned>>

\* The collaborators modelled on their own
services == <<a2a, router, long_runner>>

\* What the scheduler and the control calls never write
admin == <<create_calls, now, cleanup_returned, services>>

----------------------------------------------------------------------------
(* Bounds of the model *)

MaxSteps == 3       \* longest plan handed to _plan_to_steps
MaxRetries == 1     \* largest max_retries given to a step
MaxTasks == 3       \* scheduler tasks ever created (create + resumes)
MaxLive == 2        \* scheduler tasks a resume may leave pending at once
MaxTime == 2        \* ticks of the clock
MaxCoroutines == 3  \* _execute_task coroutines ever created for the task
MaxProgress == 2    \* progress updates the handler makes

WorkflowIds == {"w1"}

\* What the agent behind a step does when it is called: always return,
\* always raise, or any of return / raise / exceed the timeout per call;
\* "unknown" is an agent_type that is no key of self.agents.
Handlers == {"ok", "raise", "any", "unknown"}

\* The agents of one workflow: at most one of them misbehaves
HandlerProfiles(n) ==
    {h \in [1..n -> Handlers] : Cardinality({i \in 1..n : h[i] # "ok"}) <= 1}

Outcomes(handler) ==
    CASE handler = "ok" -> {"ok"}
      [] handler \in {"raise", "unknown"} -> {"raise"}
      [] OTHER -> {"ok", "raise", "timeout"}

----------------------------------------------------------------------------
(* Plans: the dependency lists of the steps of a workflow.  Step ids are   *)
(* step_1 .. step_N, written 1 .. N; 0 is an id that names no step.        *)

\* PlanStep that names the step itself as its dependency
PlanStepOnItself(i) ==
    [step_id |-> i + 1, dependencies |-> IF i > 0 THEN {i + 1} ELSE {}]

\* the body of `for i, step_data in enumerate(plan)`, i counting from 0:
\* step_id = f"step_{i+1}", dependencies = [f"step_{i}"] if i > 0 else []
PlanStep(i) ==
    [step_id |-> i + 1, dependencies |-> IF i > 0 THEN {i} ELSE {}]

\* _plan_to_steps on a plan of n items
PlanToSteps(n) == [k \in 1..n |-> PlanStep(k - 1)]

GeneratedPlans == {PlanToSteps(n) : n \in 1..MaxSteps}

\* A plan whose k-th step has id k and the given dependencies
Supplied(deps) ==
    [k \in 1..Len(deps) |-> [step_id |-> k, dependencies |-> deps[k]]]

\* Dependency sets a caller can supply that _plan_to_steps never builds
SuppliedPlans ==
    { <<{}, {}>>,               \* two independent steps
      <<{}, {}, {1, 2}>>,       \* fork and join
      <<{2}, {1}>>,             \* cycle
      <<{}, {3}, {2}>>,         \* a root and a cycle
      <<{}, {0}>> }             \* dependency on an id of no step

Plans ==
    GeneratedPlans \cup {Supplied(p) : p \in {q \in SuppliedPlans : Len(q) <= MaxSteps}}

\* The call shapes _call_agent knows: agent.process_message, the method
\* named by the action, agent.process_task
Shapes == {"process_message", "action", "process_task"}

StandardShapes == {"process_message"}

\* The agents of one workflow, each a behaviour and the shapes it exposes:
\* at most one differs from an agent that returns from process_message
AgentProfiles(n) ==
    LET standard == [handler |-> "ok", exposes |-> StandardShapes]
        others == {[handler |-> h, exposes |-> StandardShapes] : h \in Handlers}
                    \cup {[handler |-> "ok", exposes |-> e] : e \in SUBSET Shapes}
    IN {a \in [1..n -> others] : Cardinality({i \in 1..n : a[i] # standard}) <= 1}

\* WorkflowStep(...): the dataclass defaults for status, retry_count, error,
\* result; attempts and invoked are history
NewStep(id, deps, retries, handler, exposes) ==
    [step_id |-> id, dependencies |-> deps, max_retries |-> retries,
     handler |-> handler, exposes |-> exposes,
     retry_count |-> 0, status |-> "PENDING", error |-> "none",
     result |-> "none", attempts |-> 0, invoked |-> {}]

\* Workflow(...): status defaults to PENDING, completed_at to None (-1);
\* terminal_at is history; generated tells the workflows _plan_to_steps can
\* build (_determine_agent_for_action only names registered agents)
NewWorkflow(plan, retries, handlers, exposes) ==
    [status |-> "PENDING",
     steps |-> [i \in 1..Len(plan) |->
                  NewStep(plan[i].step_id, plan[i].dependencies, retries,
                          handlers[i], exposes[i])],
     completed_at |-> -1,
     terminal_at |-> -1,
     generated |-> /\ plan \in GeneratedPlans
                   /\ \A i \in 1..Len(plan) : handlers[i] # "unknown"]

\* asyncio.create_task(self._execute_workflow(workflow_id))
NewTask(w) ==
    [wf |-> w, pc |-> "created", completed_steps |-> {},
     children |-> <<>>, batches |-> 0]

\* A task that has returned or was cancelled: its locals are gone
EndedTask(task, how) ==
    [wf |-> task.wf, pc |-> how, completed_steps |-> {},
     children |-> <<>>, batches |-> 0]

----------------------------------------------------------------------------
(* Helpers on dictionaries *)

DictDel(d, k) == [x \in (DOMAIN d) \ {k} |-> d[x]]

DictSet(d, k, v) == [x \in (DOMAIN d) \cup {k} |-> IF x = k THEN v ELSE d[x]]

TaskIds == 1..Len(tasks)

\* A scheduler task that still runs code of the loop of _execute_workflow
Live(t) == tasks[t].pc \in {"created", "gather"}

LiveTasks(w) == {t \in TaskIds : tasks[t].wf = w /\ Live(t)}

StepIds(w) == 1..Len(workflows[w].steps)

----------------------------------------------------------------------------
(* _execute_workflow *)

\* ReadySteps without the dependency test
ReadyStepsIgnoringDependencies(steps, completed) ==
    {i \in 1..Len(steps) : steps[i].status = "PENDING"}

\* ready_steps: PENDING steps with no dependencies or all of them in
\* completed_steps
ReadySteps(steps, completed) ==
    {i \in 1..Len(steps) :
        /\ steps[i].status = "PENDING"
        /\ (steps[i].dependencies = {} \/ steps[i].dependencies \subseteq completed)}

\* while len(completed_steps) < len(workflow.steps)
LoopCondition(steps, completed) == Cardinality(completed) < Len(steps)

\* CompletedIds that forgets the steps completed by the batch
CompletedIdsForgotten(steps) == {}

\* newly_completed, merged into completed_steps after the gather
CompletedIds(steps) ==
    {steps[i].step_id : i \in {j \in 1..Len(steps) : steps[j].status = "COMPLETED"}}

Terminal == {"COMPLETED", "FAILED", "CANCELLED"}

\* workflow.status = status; terminal_at records when the workflow last
\* went from a status that is not terminal to one that is
SetStatus(wf, status) ==
    [wf EXCEPT !.status = status,
               !.terminal_at = IF status \notin Terminal THEN -1
                               ELSE IF wf.status \in Terminal THEN @ ELSE now]

\* workflow.completed_at = datetime.now(), inside the final check only
CompletedAt(at, steps) ==
    IF \A i \in 1..Len(steps) : steps[i].status = "COMPLETED" THEN now ELSE at

\* StatusOnNoReady that breaks out of the loop without marking the workflow
StatusOnNoReadyUnmarked(status) == status

\* both branches of `if not ready_steps` set FAILED and break
StatusOnNoReady(status) == "FAILED"

\* FinalStatus without the final check
FinalStatusUnchecked(status, steps) == status

\* the final check after the loop
FinalStatus(status, steps) ==
    IF \A i \in 1..Len(steps) : steps[i].status = "COMPLETED"
    THEN "COMPLETED" ELSE status

\* One evaluation of the loop from its condition to the next suspension:
\* either the gather of the ready steps, or the end of the coroutine
\* (final check and the finally block).
LoopPass(t, w, status, completed) ==
    LET steps == workflows[w].steps
        ready == ReadySteps(steps, completed)
    IN  IF LoopCondition(steps, completed) /\ ready # {}
        THEN /\ tasks' = [tasks EXCEPT ![t] =
                    [@ EXCEPT !.pc = "gather",
                              !.completed_steps = completed,
                              !.children = [i \in 1..Len(steps) |->
                                    IF i \in ready THEN "new" ELSE "none"],
                              !.batches = @ + 1]]
             /\ workflows' = [workflows EXCEPT ![w] = SetStatus(@, status)]
             /\ UNCHANGED running_workflows
        ELSE LET broke == LoopCondition(steps, completed)
                 st == IF broke THEN StatusOnNoReady(status) ELSE status
             IN /\ tasks' = [tasks EXCEPT ![t] = EndedTask(@, "done")]
                /\ workflows' = [workflows EXCEPT ![w] =
                      [SetStatus(@, FinalStatus(st, steps))
                          EXCEPT !.completed_at = CompletedAt(@, steps)]]
                /\ running_workflows' = DictDel(running_workflows, w)

\* The task starts: status = RUNNING, completed_steps = set(), first pass
ExecuteWorkflowStart(t) ==
    /\ t \in TaskIds
    /\ tasks[t].pc = "created"
    /\ tasks[t].wf \in DOMAIN workflows
    /\ LoopPass(t, tasks[t].wf, "RUNNING", {})
    /\ UNCHANGED <<cancel_returned, admin>>

\* GatherDone that returns with the first step coroutine that has returned
GatherDoneAtFirst(children) ==
    \E i \in DOMAIN children : children[i] = "done"

\* await asyncio.gather(*tasks, return_exceptions=True): over when every
\* step coroutine of the batch has returned
GatherDone(children) ==
    \A i \in DOMAIN children : children[i] \in {"none", "done"}

\* The gather returns once every step coroutine of the batch has returned
ExecuteWorkflowWake(t) ==
    /\ t \in TaskIds
    /\ tasks[t].pc = "gather"
    /\ GatherDone(tasks[t].children)
    /\ LET w == tasks[t].wf
       IN LoopPass(t, w, workflows[w].status,
                   tasks[t].completed_steps \cup CompletedIds(workflows[w].steps))
    /\ UNCHANGED <<cancel_returned, admin>>

\* The cancelled scheduler coroutine unwinds: only its finally block runs
ExecuteWorkflowCancelled(t) ==
    /\ t \in TaskIds
    /\ tasks[t].pc = "cancelling"
    /\ tasks' = [tasks EXCEPT ![t] = EndedTask(@, "cancelled")]
    /\ running_workflows' = DictDel(running_workflows, tasks[t].wf)
    /\ UNCHANGED <<workflows, cancel_returned, admin>>

----------------------------------------------------------------------------
(* _execute_step *)

\* CallShapes that tries the method named by the action first
CallShapesActionFirst(exposes) ==
    IF "action" \in exposes THEN {"action"}
    ELSE IF "process_message" \in exposes THEN {"process_message"}
    ELSE IF "process_task" \in exposes THEN {"process_task"}
    ELSE {}

\* _call_agent, the if / elif / elif / else over hasattr: the shapes it
\* invokes on an agent that exposes the given ones
CallShapes(exposes) ==
    IF "process_message" \in exposes THEN {"process_message"}
    ELSE IF "action" \in exposes THEN {"action"}
    ELSE IF "process_task" \in exposes THEN {"process_task"}
    ELSE {}

\* _call_agent: `if not agent: raise ValueError` comes before any call
Invoked(step) ==
    IF step.handler = "unknown" THEN {} ELSE CallShapes(step.exposes)

\* How the agent call of a step can end: a call that invoked nothing raised
CallOutcomes(step) ==
    IF Invoked(step) = {} THEN {"raise"} ELSE Outcomes(step.handler)

\* step.status = RUNNING, then the coroutine parks on the agent call
StepOnStart(step) ==
    [step EXCEPT !.status = "RUNNING", !.attempts = @ + 1,
                 !.invoked = Invoked(step)]

\* the agent call returned: step.status = COMPLETED, step.result = result
StepOnSuccess(step) == [step EXCEPT !.status = "COMPLETED", !.result = "value"]

\* StepOnTimeout that records the error and leaves the step as it is
StepOnTimeoutHung(step) == [step EXCEPT !.error = "timeout"]

\* except asyncio.TimeoutError
StepOnTimeout(step) == [step EXCEPT !.status = "FAILED", !.error = "timeout"]

\* StepOnException with the retry test off by one (<= for <)
StepOnExceptionOneMore(step) ==
    IF step.retry_count <= step.max_retries
    THEN [step EXCEPT !.status = "PENDING", !.error = "exception",
                      !.retry_count = @ + 1]
    ELSE [step EXCEPT !.status = "FAILED", !.error = "exception"]

\* except Exception, with the retry logic
StepOnException(step) ==
    IF step.retry_count < step.max_retries
    THEN [step EXCEPT !.status = "PENDING", !.error = "exception",
                      !.retry_count = @ + 1]
    ELSE [step EXCEPT !.status = "FAILED", !.error = "exception"]

\* ExecuteStepBegin that starts a step only when no step of the batch is
\* waiting for its agent
ExecuteStepBeginAlone(t, i) ==
    /\ t \in TaskIds
    /\ tasks[t].pc = "gather"
    /\ i \in DOMAIN tasks[t].children
    /\ tasks[t].children[i] = "new"
    /\ \A j \in DOMAIN tasks[t].children : tasks[t].children[j] # "wait"
    /\ LET w == tasks[t].wf
       IN workflows' = [workflows EXCEPT ![w].steps[i] = StepOnStart(@)]
    /\ tasks' = [tasks EXCEPT ![t].children[i] = "wait"]
    /\ UNCHANGED <<running_workflows, cancel_returned, admin>>

ExecuteStepBegin(t, i) ==
    /\ t \in TaskIds
    /\ tasks[t].pc = "gather"
    /\ i \in DOMAIN tasks[t].children
    /\ tasks[t].children[i] = "new"
    /\ LET w == tasks[t].wf
       IN workflows' = [workflows EXCEPT ![w].steps[i] = StepOnStart(@)]
    /\ tasks' = [tasks EXCEPT ![t].children[i] = "wait"]
    /\ UNCHANGED <<running_workflows, cancel_returned, admin>>

ExecuteStepEnd(t, i, outcome) ==
    /\ t \in TaskIds
    /\ tasks[t].pc = "gather"
    /\ i \in DOMAIN tasks[t].children
    /\ tasks[t].children[i] = "wait"
    /\ LET w == tasks[t].wf
       IN /\ outcome \in CallOutcomes(workflows[w].steps[i])
          /\ workflows' = [workflows EXCEPT ![w].steps[i] =
                CASE outcome = "ok" -> StepOnSuccess(@)
                  [] outcome = "timeout" -> StepOnTimeout(@)
                  [] OTHER -> StepOnException(@)]
    /\ tasks' = [tasks EXCEPT ![t].children[i] = "done"]
    /\ UNCHANGED <<running_workflows, cancel_returned, admin>>

----------------------------------------------------------------------------
(* create_workflow, pause_workflow, resume_workflow, cancel_workflow *)

\* task.cancel(): a task that has not started never runs; a task parked on
\* its gather loses every step coroutine of the batch and unwinds later
CancelTask(task) ==
    CASE task.pc = "created" -> EndedTask(task, "cancelled")
      [] task.pc = "gather" ->
            [task EXCEPT !.pc = "cancelling",
                         !.children = [i \in DOMAIN task.children |-> "none"]]
      [] OTHER -> task

\* `if workflow_id in self.running_workflows: task.cancel(); del ...`
CancelRunningTask(w) ==
    IF w \in DOMAIN running_workflows
    THEN /\ tasks' = [tasks EXCEPT ![running_workflows[w]] = CancelTask(@)]
         /\ running_workflows' = DictDel(running_workflows, w)
    ELSE UNCHANGED <<tasks, running_workflows>>

\* CreateWorkflowCall that registers the workflow before the agent calls
CreateWorkflowCallRegistering(w) ==
    /\ w \notin DOMAIN create_calls
    /\ Len(tasks) < MaxTasks
    /\ create_calls' = DictSet(create_calls, w, "analyzer")
    /\ workflows' = DictSet(workflows, w, NewWorkflow(<<>>, 0, <<>>, <<>>))
    /\ UNCHANGED <<running_workflows, tasks, cancel_returned, now, cleanup_returned, services>>

\* create_workflow up to `await self._call_agent("analyzer", ...)`: the id
\* is a fresh uuid
CreateWorkflowCall(w) ==
    /\ w \notin DOMAIN create_calls
    /\ Len(tasks) < MaxTasks
    /\ create_calls' = DictSet(create_calls, w, "analyzer")
    /\ UNCHANGED <<workflows, running_workflows, tasks, cancel_returned,
                   now, cleanup_returned, services>>

\* the intent analysis returned: on to `await self._call_agent("planner", ...)`
CreateWorkflowAnalyzed(w) ==
    /\ w \in DOMAIN create_calls
    /\ create_calls[w] = "analyzer"
    /\ create_calls' = [create_calls EXCEPT ![w] = "planner"]
    /\ UNCHANGED <<workflows, running_workflows, tasks, cancel_returned,
                   now, cleanup_returned, services>>

\* one of the two agent calls raised: `except Exception: ...; raise`
CreateWorkflowRaises(w) ==
    /\ w \in DOMAIN create_calls
    /\ create_calls[w] \in {"analyzer", "planner"}
    /\ create_calls' = [create_calls EXCEPT ![w] = "raised"]
    /\ UNCHANGED <<workflows, running_workflows, tasks, cancel_returned,
                   now, cleanup_returned, services>>

\* the planning returned: steps, Workflow(...), registration, create_task
CreateWorkflow(w, plan, retries, handlers, exposes) ==
    /\ w \in DOMAIN create_calls
    /\ create_calls[w] = "planner"
    /\ Len(tasks) < MaxTasks
    /\ create_calls' = [create_calls EXCEPT ![w] = "returned"]
    /\ workflows' = DictSet(workflows, w, NewWorkflow(plan, retries, handlers, exposes))
    /\ tasks' = Append(tasks, NewTask(w))
    /\ running_workflows' = DictSet(running_workflows, w, Len(tasks) + 1)
    /\ UNCHANGED <<cancel_returned, now, cleanup_returned, services>>

PauseWorkflow(w) ==
    /\ w \in DOMAIN workflows
    /\ workflows[w].status = "RUNNING"
    /\ workflows' = [workflows EXCEPT ![w] = SetStatus(@, "PAUSED")]
    /\ CancelRunningTask(w)
    /\ UNCHANGED <<cancel_returned, admin>>

ResumeWorkflow(w) ==
    /\ w \in DOMAIN workflows
    /\ workflows[w].status = "PAUSED"
    /\ Len(tasks) < MaxTasks
    /\ Cardinality(LiveTasks(w)) < MaxLive
    /\ tasks' = Append(tasks, NewTask(w))
    /\ running_workflows' = DictSet(running_workflows, w, Len(tasks) + 1)
    /\ UNCHANGED <<workflows, cancel_returned, admin>>

\* CancelWorkflow that also marks the steps that have not completed
CancelWorkflowMarkingSteps(w) ==
    /\ w \in DOMAIN workflows
    /\ workflows' = [workflows EXCEPT ![w] =
          [SetStatus(@, "CANCELLED") EXCEPT !.steps =
              [i \in DOMAIN @ |->
                  IF @[i].status = "COMPLETED" THEN @[i]
                  ELSE [@[i] EXCEPT !.status = "CANCELLED"]]]]
    /\ CancelRunningTask(w)
    /\ cancel_returned' = cancel_returned \cup {w}
    /\ UNCHANGED admin

CancelWorkflow(w) ==
    /\ w \in DOMAIN workflows
    /\ workflows' = [workflows EXCEPT ![w] = SetStatus(@, "CANCELLED")]
    /\ CancelRunningTask(w)
    /\ cancel_returned' = cancel_returned \cup {w}
    /\ UNCHANGED admin

\* The clock advances
Tick ==
    /\ now < MaxTime
    /\ now' = now + 1
    /\ UNCHANGED <<workflows, running_workflows, tasks, cancel_returned,
                   create_calls, cleanup_returned, services>>

\* `workflow.status in [COMPLETED, FAILED, CANCELLED] and
\*  workflow.completed_at and workflow.completed_at < cutoff_time`
ToRemove(cutoff) ==
    {w \in DOMAIN workflows :
        /\ workflows[w].status \in Terminal
        /\ workflows[w].completed_at # -1
        /\ workflows[w].completed_at < cutoff}

\* cleanup_completed_workflows(max_age_hours)
CleanupCompletedWorkflows(max_age) ==
    LET cutoff == now - max_age
    IN /\ workflows' = [w \in (DOMAIN workflows) \ ToRemove(cutoff) |-> workflows[w]]
       /\ cleanup_returned' = Cardinality(ToRemove(cutoff))
       /\ UNCHANGED <<running_workflows, tasks, cancel_returned, create_calls, now,
                     services>>

----------------------------------------------------------------------------
(* A2AProtocol (core/a2a.py) and AgentMessage (schemas.py).                *)
(* A Python value is a record of its kind k, its text v and its items; an  *)
(* item is a scalar with the key it has in a dict ("" in a list).  A JSON  *)
(* text is written as the tree of its tokens in the same shape, with the   *)
(* JSON kinds string, number, true, false, null, array, object.            *)

Item(key, k, v) == [key |-> key, k |-> k, v |-> v]

Value(k, v, items) == [k |-> k, v |-> v, items |-> items]

\* The scalars of the model: a str, an int, a bool, None and a datetime
PyScalars ==
    {<<"str", "a">>, <<"int", "1">>, <<"bool", "True">>, <<"none", "">>,
     <<"datetime", "2026-01-01T00:00:00">>}

\* The values a payload key can hold
PyValues ==
    {Value(s[1], s[2], <<>>) : s \in PyScalars}
        \cup {Value(c, "", <<>>) : c \in {"list", "tuple", "dict"}}
        \cup {Value(c, "", <<Item("", s[1], s[2])>>) :
                c \in {"list", "tuple"}, s \in PyScalars}
        \cup {Value("dict", "", <<Item("x", s[1], s[2])>>) : s \in PyScalars}

\* The payload maps: entries in key order
Payloads ==
    {<<>>}
        \cup {<<[key |-> n, val |-> v]>> : n \in {"a", "b"}, v \in PyValues}
        \cup {<<[key |-> "a", val |-> v], [key |-> "b", val |-> u]>> :
                v \in PyValues, u \in PyValues}

\* json.dumps with the pydantic encoder, on a scalar: kind and text
ScalarToJson(k, v) ==
    CASE k = "str" -> <<"string", v>>
      [] k = "int" -> <<"number", v>>
      [] k = "bool" -> IF v = "True" THEN <<"true", "">> ELSE <<"false", "">>
      [] k = "none" -> <<"null", "">>
      [] k = "datetime" -> <<"string", v>>

\* json.loads on a scalar token
ScalarFromJson(k, v) ==
    CASE k = "string" -> <<"str", v>>
      [] k = "number" -> <<"int", v>>
      [] k = "true" -> <<"bool", "True">>
      [] k = "false" -> <<"bool", "False">>
      [] k = "null" -> <<"none", "">>

ItemToJson(i) ==
    LET j == ScalarToJson(i.k, i.v) IN Item(i.key, j[1], j[2])

ItemFromJson(i) ==
    LET y == ScalarFromJson(i.k, i.v) IN Item(i.key, y[1], y[2])

\* json.dumps on a payload value: list and tuple both become an array
ValueToJson(x) ==
    CASE x.k \in {"list", "tuple"} ->
            Value("array", "", [n \in DOMAIN x.items |-> ItemToJson(x.items[n])])
      [] x.k = "dict" ->
            Value("object", "", [n \in DOMAIN x.items |-> ItemToJson(x.items[n])])
      [] OTHER ->
            LET j == ScalarToJson(x.k, x.v) IN Value(j[1], j[2], <<>>)

\* json.loads on a payload value: an array becomes a list
ValueFromJson(j) ==
    CASE j.k = "array" ->
            Value("list", "", [n \in DOMAIN j.items |-> ItemFromJson(j.items[n])])
      [] j.k = "object" ->
            Value("dict", "", [n \in DOMAIN j.items |-> ItemFromJson(j.items[n])])
      [] OTHER ->
            LET y == ScalarFromJson(j.k, j.v) IN Value(y[1], y[2], <<>>)

\* A2AProtocol.create_message: AgentMessage(sender, receiver, type, payload)
CreateMessage(sender, receiver, type, payload) ==
    [sender |-> sender, receiver |-> receiver, type |-> type, payload |-> payload]

\* SerializeMessage that leaves out the payload keys that hold None
SerializeMessageExcludingNone(message) ==
    LET kept == SelectSeq(message.payload, LAMBDA e : e.val.k # "none")
    IN [sender |-> ScalarToJson("str", message.sender),
        receiver |-> ScalarToJson("str", message.receiver),
        type |-> ScalarToJson("str", message.type),
        payload |-> [n \in DOMAIN kept |->
                        [key |-> kept[n].key, val |-> ValueToJson(kept[n].val)]]]

\* A2AProtocol.serialize_message: message.json(), the JSON object of the
\* four fields
SerializeMessage(message) ==
    [sender |-> ScalarToJson("str", message.sender),
     receiver |-> ScalarToJson("str", message.receiver),
     type |-> ScalarToJson("str", message.type),
     payload |-> [n \in DOMAIN message.payload |->
                    [key |-> message.payload[n].key,
                     val |-> ValueToJson(message.payload[n].val)]]]

\* A2AProtocol.deserialize_message: AgentMessage(**json.loads(json_str))
DeserializeMessage(wire) ==
    [sender |-> ScalarFromJson(wire.sender[1], wire.sender[2])[2],
     receiver |-> ScalarFromJson(wire.receiver[1], wire.receiver[2])[2],
     type |-> ScalarFromJson(wire.type[1], wire.type[2])[2],
     payload |-> [n \in DOMAIN wire.payload |->
                    [key |-> wire.payload[n].key,
                     val |-> ValueFromJson(wire.payload[n].val)]]]

\* required_fields, in the order of the loop
RequiredFields == <<"sender", "receiver", "type", "payload">>

\* What an object handed to validate_message can have for an attribute:
\* no such attribute, None, an empty value ("" or {}), another value
AttributeStates == {"absent", "none", "empty", "value"}

Objects == [{"sender", "receiver", "type", "payload"} -> AttributeStates]

\* FieldMissing that takes every falsy attribute for a missing one
FieldMissingOrFalsy(object, field) ==
    object[field] \in {"absent", "none", "empty"}

\* `not hasattr(message, field) or getattr(message, field) is None`
FieldMissing(object, field) ==
    object[field] = "absent" \/ object[field] = "none"

\* A2AProtocol.validate_message: the loop from its n-th field on
RECURSIVE ValidateFrom(_, _)
ValidateFrom(object, n) ==
    IF n > Len(RequiredFields) THEN TRUE
    ELSE IF FieldMissing(object, RequiredFields[n]) THEN FALSE
    ELSE ValidateFrom(object, n + 1)

ValidateMessage(object) == ValidateFrom(object, 1)

A2AIdle ==
    [pc |-> "idle", message |-> <<>>, wire |-> <<>>, back |-> <<>>,
     object |-> <<>>, valid |-> FALSE]

A2ACreateMessage(type, payload) ==
    /\ a2a.pc = "idle"
    /\ a2a' = [a2a EXCEPT !.pc = "created",
                  !.message = CreateMessage("orchestrator", "planner_agent",
                                            type, payload)]
    /\ UNCHANGED <<orchestrator, router, long_runner>>

A2ASerializeMessage ==
    /\ a2a.pc = "created"
    /\ a2a' = [a2a EXCEPT !.pc = "serialized",
                  !.wire = SerializeMessage(a2a.message)]
    /\ UNCHANGED <<orchestrator, router, long_runner>>

A2ADeserializeMessage ==
    /\ a2a.pc = "serialized"
    /\ a2a' = [a2a EXCEPT !.pc = "deserialized",
                  !.back = DeserializeMessage(a2a.wire)]
    /\ UNCHANGED <<orchestrator, router, long_runner>>

A2AValidateMessage(object) ==
    /\ a2a.pc = "idle"
    /\ a2a' = [a2a EXCEPT !.pc = "validated", !.object = object,
                  !.valid = ValidateMessage(object)]
    /\ UNCHANGED <<orchestrator, router, long_runner>>

----------------------------------------------------------------------------
(* RouterAgent (agents/router.py).  A message text is taken by the set of  *)
(* categories of which it matches at least one pattern.                    *)

Categories ==
    {"memory_store", "planning_request", "knowledge_search", "memory_retrieve",
     "context_continuation", "ui_request", "error_handling"}

\* DetectMessageType that looks at the retrieval patterns before the
\* storage patterns
DetectMessageTypeRetrievalFirst(matches) ==
    IF "memory_retrieve" \in matches THEN "memory_retrieve"
    ELSE IF "memory_store" \in matches THEN "memory_store"
    ELSE IF "planning_request" \in matches THEN "planning_request"
    ELSE IF "knowledge_search" \in matches THEN "knowledge_search"
    ELSE IF "context_continuation" \in matches THEN "context_continuation"
    ELSE IF "ui_request" \in matches THEN "ui_request"
    ELSE IF "error_handling" \in matches THEN "error_handling"
    ELSE "planning_request"

\* _detect_message_type: the seven loops over the pattern lists in their
\* order, then the default
DetectMessageType(matches) ==
    IF "memory_store" \in matches THEN "memory_store"
    ELSE IF "planning_request" \in matches THEN "planning_request"
    ELSE IF "knowledge_search" \in matches THEN "knowledge_search"
    ELSE IF "memory_retrieve" \in matches THEN "memory_retrieve"
    ELSE IF "context_continuation" \in matches THEN "context_continuation"
    ELSE IF "ui_request" \in matches THEN "ui_request"
    ELSE IF "error_handling" \in matches THEN "error_handling"
    ELSE "planning_request"

\* The branches of process_message with a try / except of their own
GuardedBranches == {"memory_store", "memory_retrieve"}

RouterIdle ==
    [pc |-> "idle", matches |-> {}, message_type |-> "none",
     final_response |-> "none", reply |-> "none", failed |-> FALSE]

\* process_message up to its try block: session service, memory bank,
\* classifier; fails tells whether one of them raises
ProcessMessageBegin(matches, fails) ==
    /\ router.pc = "idle"
    /\ router' = IF fails
                 THEN [router EXCEPT !.pc = "raised", !.matches = matches,
                                     !.failed = TRUE]
                 ELSE [router EXCEPT !.pc = "routed", !.matches = matches,
                                     !.message_type = DetectMessageType(matches)]
    /\ UNCHANGED <<orchestrator, a2a, long_runner>>

\* the branch of the message type; fails tells whether the collaborator of
\* the branch raises.  The ui_request branch returns from inside the branch.
ProcessMessageRoute(fails) ==
    /\ router.pc = "routed"
    /\ router' =
          IF fails
          THEN IF router.message_type \in GuardedBranches
               THEN [router EXCEPT !.pc = "handled", !.failed = TRUE,
                                   !.final_response = "branch error"]
               ELSE [router EXCEPT !.pc = "returned", !.failed = TRUE,
                                   !.reply = "apology"]
          ELSE IF router.message_type = "ui_request"
               THEN [router EXCEPT !.pc = "returned", !.final_response = "answer",
                                   !.reply = "answer"]
               ELSE [router EXCEPT !.pc = "handled", !.final_response = "answer"]
    /\ UNCHANGED <<orchestrator, a2a, long_runner>>

\* the session update after the branches and the return, or the outer
\* `except Exception` with the apology
ProcessMessageReturn(fails) ==
    /\ router.pc = "handled"
    /\ router' =
          IF fails
          THEN [router EXCEPT !.pc = "returned", !.failed = TRUE,
                              !.reply = "apology"]
          ELSE [router EXCEPT !.pc = "returned", !.reply = router.final_response]
    /\ UNCHANGED <<orchestrator, a2a, long_runner>>

----------------------------------------------------------------------------
(* LongRunner (core/longrunner.py): one task id, its TaskState, the entry  *)
(* of the id in running_tasks and the coroutines of _execute_task created  *)
(* for it.  The handler is a coroutine function that suspends between its  *)
(* progress updates.                                                       *)

NewLongRunner ==
    [status |-> "absent",       \* tasks[id].status, absent before create_task
     running_tasks |-> 0,       \* running_tasks[id]: a coroutine, 0 for no entry
     coroutines |-> <<>>,       \* where each _execute_task coroutine is
     progress |-> 0,            \* history: progress updates of the handler
     cancelled |-> FALSE]       \* history: cancel_task has returned True

\* asyncio.create_task(self._execute_task(...)); running_tasks[id] = it
StartCoroutine(lr) ==
    [lr EXCEPT !.coroutines = Append(@, "created"),
               !.running_tasks = Len(lr.coroutines) + 1]

\* `if task_id in self.running_tasks: .cancel(); del ...`: a coroutine
\* that has not started never runs, one parked in the handler unwinds later
CancelRunning(lr) ==
    IF lr.running_tasks = 0 THEN lr
    ELSE [lr EXCEPT !.running_tasks = 0,
                    !.coroutines[lr.running_tasks] =
                        CASE @ = "created" -> "cancelled"
                          [] @ = "handler" -> "cancelling"
                          [] OTHER -> @]

\* the finally block of _execute_task: whatever entry the id has goes
Finally(lr) == [lr EXCEPT !.running_tasks = 0]

LongRunnerCreateTask ==
    /\ long_runner.status = "absent"
    /\ long_runner' = StartCoroutine([long_runner EXCEPT !.status = "PENDING"])
    /\ UNCHANGED <<orchestrator, a2a, router>>

\* _execute_task from its start: RUNNING, then the handler up to its first
\* suspension ("suspends"), or a handler that returns at once ("ok"), or no
\* handler for the type or a handler that raises at once ("raise")
ExecuteTaskStart(c, outcome) ==
    /\ c \in DOMAIN long_runner.coroutines
    /\ long_runner.coroutines[c] = "created"
    /\ long_runner' =
          CASE outcome = "suspends" ->
                  [long_runner EXCEPT !.status = "RUNNING",
                                      !.coroutines[c] = "handler"]
            [] outcome = "ok" ->
                  Finally([long_runner EXCEPT !.status = "COMPLETED",
                                              !.coroutines[c] = "done"])
            [] outcome = "raise" ->
                  Finally([long_runner EXCEPT !.status = "FAILED",
                                              !.coroutines[c] = "done"])
    /\ UNCHANGED <<orchestrator, a2a, router>>

\* the handler goes from one suspension to the next: update_progress
HandlerProgress(c) ==
    /\ c \in DOMAIN long_runner.coroutines
    /\ long_runner.coroutines[c] = "handler"
    /\ long_runner.progress < MaxProgress
    /\ long_runner' = [long_runner EXCEPT !.progress = @ + 1]
    /\ UNCHANGED <<orchestrator, a2a, router>>

\* the handler returns or raises: COMPLETED or FAILED, then finally
ExecuteTaskEnd(c, outcome) ==
    /\ c \in DOMAIN long_runner.coroutines
    /\ long_runner.coroutines[c] = "handler"
    /\ long_runner' = Finally([long_runner EXCEPT
                          !.status = IF outcome = "ok" THEN "COMPLETED" ELSE "FAILED",
                          !.coroutines[c] = "done"])
    /\ UNCHANGED <<orchestrator, a2a, router>>

\* the cancelled coroutine unwinds: except asyncio.CancelledError, finally
ExecuteTaskCancelled(c) ==
    /\ c \in DOMAIN long_runner.coroutines
    /\ long_runner.coroutines[c] = "cancelling"
    /\ long_runner' = Finally([long_runner EXCEPT !.status = "CANCELLED",
                                                  !.coroutines[c] = "cancelled"])
    /\ UNCHANGED <<orchestrator, a2a, router>>

\* pause_task returning True
PauseTask ==
    /\ long_runner.status = "RUNNING"
    /\ long_runner' = [CancelRunning(long_runner) EXCEPT !.status = "PAUSED"]
    /\ UNCHANGED <<orchestrator, a2a, router>>

\* resume_task returning True
ResumeTask ==
    /\ long_runner.status = "PAUSED"
    /\ Len(long_runner.coroutines) < MaxCoroutines
    /\ long_runner' = StartCoroutine([long_runner EXCEPT !.status = "RUNNING"])
    /\ UNCHANGED <<orchestrator, a2a, router>>

\* cancel_task returning True
CancelTaskCall ==
    /\ long_runner.status # "absent"
    /\ long_runner' = [CancelRunning(long_runner) EXCEPT !.status = "CANCELLED",
                                                         !.cancelled = TRUE]
    /\ UNCHANGED <<orchestrator, a2a, router>>

----------------------------------------------------------------------------
(* Specifications *)

Init ==
    /\ workflows = <<>>
    /\ running_workflows = <<>>
    /\ tasks = <<>>
    /\ cancel_returned = {}
    /\ create_calls = <<>>
    /\ now = 0
    /\ cleanup_returned = -1
    /\ a2a = A2AIdle
    /\ router = RouterIdle
    /\ long_runner = NewLongRunner

\* create_workflow up to its last stretch
CreateCalls(ids) ==
    \E w \in ids :
        \/ CreateWorkflowCall(w)
        \/ CreateWorkflowAnalyzed(w)
        \/ CreateWorkflowRaises(w)

\* create_workflow with agents that all expose process_message
Create ==
    \/ CreateCalls(WorkflowIds)
    \/ \E w \in WorkflowIds, plan \in Plans, retries \in 0..MaxRetries :
          \E handlers \in HandlerProfiles(Len(plan)) :
              CreateWorkflow(w, plan, retries, handlers,
                             [i \in 1..Len(plan) |-> StandardShapes])

\* create_workflow with agents of any shape
CreateAnyAgent ==
    \/ CreateCalls(WorkflowIds)
    \/ \E w \in WorkflowIds, plan \in Plans, retries \in 0..MaxRetries :
          \E agents \in AgentProfiles(Len(plan)) :
              CreateWorkflow(w, plan, retries,
                             [i \in 1..Len(plan) |-> agents[i].handler],
                             [i \in 1..Len(plan) |-> agents[i].exposes])

\* Everything the event loop does for task t
TaskStep(t) ==
    \/ ExecuteWorkflowStart(t)
    \/ ExecuteWorkflowWake(t)
    \/ \E i \in 1..MaxSteps : ExecuteStepBegin(t, i)
    \/ \E i \in 1..MaxSteps, o \in {"ok", "raise", "timeout"} : ExecuteStepEnd(t, i, o)

Next ==
    \/ Create
    \/ \E t \in 1..MaxTasks : TaskStep(t)
    \/ \E t \in 1..MaxTasks : ExecuteWorkflowCancelled(t)
    \/ \E w \in WorkflowIds : PauseWorkflow(w)
    \/ \E w \in WorkflowIds : ResumeWorkflow(w)
    \/ \E w \in WorkflowIds : CancelWorkflow(w)

Spec == Init /\ [][Next]_vars

\* The scheduler left alone: no pause, resume or cancel call.  The event
\* loop runs every runnable coroutine and every agent call ends (wait_for
\* bounds it), so each task keeps taking its steps.
NextRun ==
    \/ CreateAnyAgent
    \/ \E t \in 1..MaxTasks : TaskStep(t)

SpecRun ==
    /\ Init
    /\ [][NextRun]_vars
    /\ \A t \in 1..MaxTasks : WF_vars(TaskStep(t))

\* Pause and resume of workflows whose agents all return: no cancel call,
\* and the event loop runs every runnable coroutine, the unwinding of a
\* cancelled scheduler included.
CreateAllOk ==
    \/ CreateCalls(WorkflowIds)
    \/ \E w \in WorkflowIds, plan \in Plans :
          CreateWorkflow(w, plan, 0,
                         [i \in 1..Len(plan) |-> "ok"],
                         [i \in 1..Len(plan) |-> StandardShapes])

NextResume ==
    \/ CreateAllOk
    \/ \E t \in 1..MaxTasks : TaskStep(t)
    \/ \E t \in 1..MaxTasks : ExecuteWorkflowCancelled(t)
    \/ \E w \in WorkflowIds : PauseWorkflow(w)
    \/ \E w \in WorkflowIds : ResumeWorkflow(w)

SpecResume ==
    /\ Init
    /\ [][NextResume]_vars
    /\ \A t \in 1..MaxTasks : WF_vars(TaskStep(t))
    /\ \A t \in 1..MaxTasks : WF_vars(ExecuteWorkflowCancelled(t))

\* A2AProtocol on its own: one envelope created, serialized and read back,
\* or one object validated
NextA2A ==
    \/ \E type \in {"create_plan", ""}, payload \in Payloads :
          A2ACreateMessage(type, payload)
    \/ A2ASerializeMessage
    \/ A2ADeserializeMessage
    \/ \E object \in Objects : A2AValidateMessage(object)

SpecA2A == Init /\ [][NextA2A]_vars

\* One call of RouterAgent.process_message, on any text and with any of
\* its collaborators failing
NextRouter ==
    \/ \E matches \in SUBSET Categories, fails \in BOOLEAN :
          ProcessMessageBegin(matches, fails)
    \/ \E fails \in BOOLEAN : ProcessMessageRoute(fails)
    \/ \E fails \in BOOLEAN : ProcessMessageReturn(fails)

SpecRouter == Init /\ [][NextRouter]_vars

\* The LongRunner with one task: the calls on it and its coroutines, in
\* any order
NextLongRunner ==
    \/ LongRunnerCreateTask
    \/ \E c \in 1..MaxCoroutines, outcome \in {"suspends", "ok", "raise"} :
          ExecuteTaskStart(c, outcome)
    \/ \E c \in 1..MaxCoroutines : HandlerProgress(c)
    \/ \E c \in 1..MaxCoroutines, outcome \in {"ok", "raise"} : ExecuteTaskEnd(c, outcome)
    \/ \E c \in 1..MaxCoroutines : ExecuteTaskCancelled(c)
    \/ PauseTask
    \/ ResumeTask
    \/ CancelTaskCall

SpecLongRunner == Init /\ [][NextLongRunner]_vars

\* The workflow table over time: two workflows of agents that always
\* return, pause and cancel calls, the clock and the periodic sweep.
TableIds == {"w1", "w2"}

CreateTable ==
    \/ CreateCalls(TableIds)
    \/ \E w \in TableIds, n \in 1..MaxSteps :
          CreateWorkflow(w, PlanToSteps(n), 0,
                         [i \in 1..n |-> "ok"], [i \in 1..n |-> StandardShapes])

NextTable ==
    \/ CreateTable
    \/ \E t \in 1..MaxTasks : TaskStep(t)
    \/ \E t \in 1..MaxTasks : ExecuteWorkflowCancelled(t)
    \/ \E w \in TableIds : PauseWorkflow(w)
    \/ \E w \in TableIds : CancelWorkflow(w)
    \/ Tick
    \/ \E max_age \in 0..MaxTime : CleanupCompletedWorkflows(max_age)

SpecTable == Init /\ [][NextTable]_vars

----------------------------------------------------------------------------
(* Vocabulary of the properties *)

Exists(w) == w \in DOMAIN workflows

Steps(w) == workflows[w].steps

\* The scheduler of w is not running and has nothing left to unwind
Quiet(w) == \A t \in TaskIds : tasks[t].wf = w => tasks[t].pc \in {"done", "cancelled"}

AllStepsCompleted(w) == \A i \in StepIds(w) : Steps(w)[i].status = "COMPLETED"

IsChain(w) == Steps(w) # <<>> /\ \A i \in StepIds(w) :
                 Steps(w)[i].dependencies = IF i = 1 THEN {} ELSE {i - 1}

AllOk(w) == \A i \in StepIds(w) :
    Steps(w)[i].handler = "ok" /\ Steps(w)[i].exposes # {}

\* Steps whose dependencies can all be completed: least fixpoint from {}
RECURSIVE Satisfiable(_, _)
Satisfiable(steps, S) ==
    LET S2 == {i \in 1..Len(steps) : steps[i].dependencies \subseteq S}
    IN IF S2 = S THEN S ELSE Satisfiable(steps, S2)

Unsatisfiable(w) == StepIds(w) \ Satisfiable(Steps(w), {})

RECURSIVE AttemptBudget(_, _)
AttemptBudget(steps, S) ==
    IF S = {} THEN 0
    ELSE LET i == CHOOSE x \in S : TRUE
         IN steps[i].max_retries + 1 + AttemptBudget(steps, S \ {i})

----------------------------------------------------------------------------
(* C1: a linear chain whose agent calls all succeed, with no pause or      *)
(* cancel, runs its steps one at a time in chain order (step i is started  *)
(* only once step i-1 is COMPLETED), and the scheduler ends with every     *)
(* step COMPLETED and the workflow COMPLETED.                              *)

ChainInOrder(w) ==
    /\ \A i \in StepIds(w) : i > 1 /\ Steps(w)[i].attempts > 0
            => Steps(w)[i - 1].status = "COMPLETED"
    /\ Cardinality({i \in StepIds(w) : Steps(w)[i].status = "RUNNING"}) <= 1
    /\ \A i \in StepIds(w) : Steps(w)[i].attempts <= 1
    /\ Quiet(w) => AllStepsCompleted(w) /\ workflows[w].status = "COMPLETED"

C1_LinearChainCompletesInOrder ==
    /\ [](\A w \in WorkflowIds : Exists(w) /\ IsChain(w) /\ AllOk(w) => ChainInOrder(w))
    /\ \A w \in WorkflowIds :
          (Exists(w) /\ IsChain(w) /\ AllOk(w))
              ~> (Exists(w) /\ Quiet(w) /\ AllStepsCompleted(w)
                    /\ workflows[w].status = "COMPLETED")

C1_Witness ==
    \E w \in DOMAIN workflows :
        /\ IsChain(w) /\ AllOk(w) /\ Len(Steps(w)) >= 2
        /\ Quiet(w) /\ AllStepsCompleted(w) /\ workflows[w].status = "COMPLETED"

----------------------------------------------------------------------------
(* C3: a step whose handler raises on every attempt and that is attempted  *)
(* at all is attempted exactly max_retries + 1 times: each of the first    *)
(* max_retries failures resets it to PENDING with retry_count incremented  *)
(* by one, the last leaves it FAILED with retry_count = max_retries, it is *)
(* never attempted again, and the workflow then becomes FAILED.            *)

Raising(w, i) == Exists(w) /\ i \in StepIds(w) /\ Steps(w)[i].handler = "raise"

RaisingWithinBudget(w, i) ==
    LET s == Steps(w)[i]
    IN /\ s.attempts <= s.max_retries + 1
       /\ s.status # "COMPLETED"
       /\ s.status = "FAILED" => s.retry_count = s.max_retries /\ s.attempts = s.max_retries + 1
       /\ s.status = "PENDING" => s.attempts = s.retry_count

RaisingStep(w, i) ==
    LET s == Steps(w)[i]
        n == workflows'[w].steps[i]
    IN /\ s.status = "RUNNING" /\ n.status # "RUNNING" =>
            IF s.retry_count < s.max_retries
            THEN n.status = "PENDING" /\ n.retry_count = s.retry_count + 1
            ELSE n.status = "FAILED" /\ n.retry_count = s.retry_count
       /\ s.status = "FAILED" => n = s

C3_AlwaysFailingStepExhaustsRetries ==
    /\ [](\A w \in WorkflowIds, i \in 1..MaxSteps : Raising(w, i) => RaisingWithinBudget(w, i))
    /\ [][\A w \in WorkflowIds, i \in 1..MaxSteps : Raising(w, i) => RaisingStep(w, i)]_vars
    /\ \A w \in WorkflowIds, i \in 1..MaxSteps :
          (Raising(w, i) /\ Steps(w)[i].attempts > 0)
              ~> (/\ Raising(w, i) /\ Quiet(w)
                  /\ Steps(w)[i].status = "FAILED"
                  /\ Steps(w)[i].attempts = Steps(w)[i].max_retries + 1
                  /\ workflows[w].status = "FAILED")

C3_Witness ==
    \E w \in DOMAIN workflows : \E i \in StepIds(w) :
        /\ Steps(w)[i].handler = "raise" /\ Steps(w)[i].max_retries >= 1
        /\ Steps(w)[i].status = "FAILED"
        /\ Steps(w)[i].retry_count = Steps(w)[i].max_retries
        /\ Steps(w)[i].attempts = Steps(w)[i].max_retries + 1
        /\ Quiet(w) /\ workflows[w].status = "FAILED"

----------------------------------------------------------------------------
(* C4: a workflow with steps that can never become ready (a dependency     *)
(* cycle, or a dependency on an id of no step) ends FAILED: none of those  *)
(* steps is ever dispatched, the scheduler launches no more batches than   *)
(* the other steps have attempts, and it stops.                            *)

HasUnsatisfiable(w) == Exists(w) /\ Unsatisfiable(w) # {}

UnsatisfiableUntouched(w) ==
    /\ \A i \in Unsatisfiable(w) :
          /\ Steps(w)[i].status = "PENDING"
          /\ Steps(w)[i].attempts = 0
    /\ \A t \in TaskIds : tasks[t].wf = w =>
          /\ tasks[t].batches <= AttemptBudget(Steps(w), Satisfiable(Steps(w), {}))
          /\ tasks[t].pc = "gather" =>
                \A i \in Unsatisfiable(w) : tasks[t].children[i] = "none"
    /\ Quiet(w) => workflows[w].status = "FAILED"

C4_UnsatisfiableDependenciesFail ==
    /\ [](\A w \in WorkflowIds : HasUnsatisfiable(w) => UnsatisfiableUntouched(w))
    /\ \A w \in WorkflowIds :
          HasUnsatisfiable(w) ~> (Exists(w) /\ Quiet(w) /\ workflows[w].status = "FAILED")

C4_Witness ==
    \E w \in DOMAIN workflows :
        /\ Unsatisfiable(w) # {}
        /\ \E i \in StepIds(w) : Steps(w)[i].status = "COMPLETED"
        /\ Quiet(w) /\ workflows[w].status = "FAILED"

----------------------------------------------------------------------------
(* C5: with no pause or cancel and agent calls that all end, the scheduler *)
(* of every workflow eventually stops, with the workflow COMPLETED or      *)
(* FAILED, whatever the dependencies and the outcomes of the calls.        *)

Stopped(w) == Exists(w) /\ Quiet(w) /\ workflows[w].status \in {"COMPLETED", "FAILED"}

C5_SchedulerTerminates ==
    /\ \A w \in WorkflowIds : Exists(w) ~> Stopped(w)
    /\ [](\A w \in WorkflowIds : Exists(w) /\ Quiet(w) => Stopped(w))

C5_Witness ==
    \E w \in DOMAIN workflows :
        /\ Stopped(w)
        /\ \E i \in StepIds(w) : Steps(w)[i].error = "timeout"
        /\ \E i \in StepIds(w) : Steps(w)[i].status = "COMPLETED"

----------------------------------------------------------------------------
(* C2: no step is started (set RUNNING by _execute_step) while a step id   *)
(* of its dependencies is not COMPLETED, over any sequence of scheduler    *)
(* passes, retries, pause, resume and cancel calls.                        *)

Started(w, i) ==
    /\ Exists(w) /\ i \in StepIds(w)
    /\ workflows'[w].steps[i].attempts > Steps(w)[i].attempts

DependenciesCompleted(w, i) ==
    \A d \in Steps(w)[i].dependencies :
        d \in StepIds(w) /\ Steps(w)[d].status = "COMPLETED"

C2_NoStartBeforeDependencies ==
    [][\A w \in WorkflowIds, i \in 1..MaxSteps :
          Started(w, i) => DependenciesCompleted(w, i)]_vars

----------------------------------------------------------------------------
(* C6: once cancel_workflow has returned True for a workflow, no step of   *)
(* that workflow is started any more, whatever came before the cancel.     *)

C6_NoStartAfterCancel ==
    [][\A w \in WorkflowIds, i \in 1..MaxSteps :
          w \in cancel_returned => ~Started(w, i)]_vars

----------------------------------------------------------------------------
(* C7: after pause_workflow or cancel_workflow has returned True and the   *)
(* cancelled tasks have been processed, no step of the workflow is         *)
(* RUNNING.                                                                *)

C7_NoStepLeftRunning ==
    \A w \in DOMAIN workflows :
        workflows[w].status \in {"PAUSED", "CANCELLED"} /\ Quiet(w)
            => \A i \in StepIds(w) : Steps(w)[i].status # "RUNNING"

----------------------------------------------------------------------------
(* C8: the status of a workflow changes only from PENDING to RUNNING, from *)
(* RUNNING to COMPLETED, FAILED, CANCELLED or PAUSED, and from PAUSED to   *)
(* RUNNING; COMPLETED, FAILED and CANCELLED are final.                     *)

AllowedTransitions ==
    {<<"PENDING", "RUNNING">>,
     <<"RUNNING", "COMPLETED">>, <<"RUNNING", "FAILED">>,
     <<"RUNNING", "CANCELLED">>, <<"RUNNING", "PAUSED">>,
     <<"PAUSED", "RUNNING">>}

C8_WorkflowStateMachine ==
    [][\A w \in WorkflowIds :
          Exists(w) /\ workflows'[w].status # workflows[w].status
              => <<workflows[w].status, workflows'[w].status>> \in AllowedTransitions]_vars

----------------------------------------------------------------------------
(* C9: whenever no scheduler coroutine of a workflow is live, the workflow *)
(* is COMPLETED if and only if every one of its steps is COMPLETED.        *)

C9_CompletedIffAllStepsCompleted ==
    \A w \in DOMAIN workflows :
        Quiet(w) => (workflows[w].status = "COMPLETED" <=> AllStepsCompleted(w))

----------------------------------------------------------------------------
(* C10: at most one scheduler coroutine is live for a workflow id at any   *)
(* time.                                                                   *)

C10_SingleScheduler ==
    \A w \in DOMAIN workflows : Cardinality(LiveTasks(w)) <= 1

----------------------------------------------------------------------------
(* C11 *)

\* Most gathers one scheduler task can go through
MaxBatches == MaxSteps * (MaxRetries + 1)

TimedOut(w, i) ==
    Exists(w) /\ i \in StepIds(w) /\ Steps(w)[i].error = "timeout"

\* Task t is parked on its b-th gather and a step of that batch has timed out
TimedOutInBatch(t, b) ==
    /\ t \in TaskIds
    /\ tasks[t].pc = "gather"
    /\ tasks[t].batches = b
    /\ \E i \in DOMAIN tasks[t].children :
          tasks[t].children[i] = "done" /\ TimedOut(tasks[t].wf, i)

\* Task t has gone past its b-th gather: to a later one or to its end
PastBatch(t, b) ==
    /\ t \in TaskIds
    /\ \/ tasks[t].pc = "done"
       \/ tasks[t].pc = "gather" /\ tasks[t].batches > b

\* C11: a step whose agent call exceeds the timeout is FAILED with the
\* timeout error and its retry count is not touched; the scheduler then goes
\* on to its next ready-set computation; and, with no pause or cancel call,
\* no step stays RUNNING forever.
C11_TimeoutFailsStepAndSchedulerProceeds ==
    /\ [](\A w \in WorkflowIds, i \in 1..MaxSteps :
            TimedOut(w, i) => Steps(w)[i].status = "FAILED")
    /\ [][\A w \in WorkflowIds, i \in 1..MaxSteps :
            (TimedOut(w, i)' /\ Steps(w)[i].status = "RUNNING")
                => Steps(w)[i].retry_count' = Steps(w)[i].retry_count]_vars
    /\ \A t \in 1..MaxTasks, b \in 1..MaxBatches :
            TimedOutInBatch(t, b) ~> PastBatch(t, b)
    /\ \A w \in WorkflowIds, i \in 1..MaxSteps :
            (Exists(w) /\ i \in StepIds(w) /\ Steps(w)[i].status = "RUNNING")
                ~> (Exists(w) /\ i \in StepIds(w) /\ Steps(w)[i].status # "RUNNING")

\* A step timed out next to a sibling that completed, and the scheduler
\* went on to the end
C11_Witness ==
    \E w \in WorkflowIds :
        /\ Exists(w) /\ Quiet(w)
        /\ workflows[w].status = "FAILED"
        /\ \E i, j \in StepIds(w) :
              /\ TimedOut(w, i) /\ Steps(w)[i].status = "FAILED"
              /\ Steps(w)[j].status = "COMPLETED"

----------------------------------------------------------------------------
(* C12 *)

\* The agent of step i always returns
AgentOk(w, i) ==
    Exists(w) /\ i \in StepIds(w)
        /\ Steps(w)[i].handler = "ok" /\ Steps(w)[i].exposes # {}

\* Step i of w ends an attempt in failure: FAILED, or PENDING for a retry
FailsNow(w, i) ==
    /\ Exists(w) /\ i \in StepIds(w)
    /\ Steps(w)[i].status = "RUNNING"
    /\ Steps(w)[i].status' \in {"FAILED", "PENDING"}

\* Task t leaves the gather it is parked on
LeavesGather(t) ==
    /\ t \in TaskIds
    /\ tasks[t].pc = "gather"
    /\ tasks[t].pc' # "gather" \/ tasks[t].batches' # tasks[t].batches

\* C12: within one batch a step that fails (exception or timeout) changes
\* nothing of its siblings, neither their records nor their coroutines; the
\* scheduler computes the next ready set only when every step of the batch
\* has run to the result of its attempt; and a sibling whose agent returns
\* ends COMPLETED whatever the other steps of the batch did.
C12_SiblingsUnaffectedByFailure ==
    /\ [][\A w \in WorkflowIds, i \in 1..MaxSteps :
            FailsNow(w, i) =>
                \A j \in StepIds(w) \ {i} :
                    /\ Steps(w)[j]' = Steps(w)[j]
                    /\ \A t \in TaskIds :
                          tasks[t].wf = w =>
                              tasks[t].children[j]' = tasks[t].children[j]]_vars
    /\ [][\A t \in 1..MaxTasks :
            LeavesGather(t) =>
                \A i \in DOMAIN tasks[t].children :
                    tasks[t].children[i] # "none" =>
                        /\ tasks[t].children[i] = "done"
                        /\ Steps(tasks[t].wf)[i].attempts > 0
                        /\ Steps(tasks[t].wf)[i].status
                              \in {"COMPLETED", "FAILED", "PENDING"}]_vars
    /\ [](\A w \in WorkflowIds, j \in 1..MaxSteps :
            (AgentOk(w, j) /\ Steps(w)[j].attempts > 0)
                => Steps(w)[j].status \in {"RUNNING", "COMPLETED"})
    /\ \A w \in WorkflowIds, j \in 1..MaxSteps :
            (AgentOk(w, j) /\ Steps(w)[j].status = "RUNNING")
                ~> (AgentOk(w, j) /\ Steps(w)[j].status = "COMPLETED")

\* Two steps of the first batch: one failed for good, its sibling completed
C12_Witness ==
    \E w \in WorkflowIds :
        /\ Exists(w) /\ Quiet(w)
        /\ \E i, j \in StepIds(w) :
              /\ i # j
              /\ Steps(w)[i].dependencies = {} /\ Steps(w)[j].dependencies = {}
              /\ Steps(w)[i].status = "FAILED" /\ Steps(w)[i].attempts > 0
              /\ Steps(w)[j].status = "COMPLETED"

----------------------------------------------------------------------------
(* C13 *)

\* Steps i and j of the batch task t is parked on
InBatch(t, i, j) ==
    /\ t \in TaskIds
    /\ tasks[t].pc = "gather"
    /\ i \in DOMAIN tasks[t].children /\ j \in DOMAIN tasks[t].children
    /\ i # j
    /\ tasks[t].children[i] # "none" /\ tasks[t].children[j] # "none"

\* C13: steps that are ready in the same pass are launched in one batch,
\* and a step of the batch that has not started can start while a sibling
\* is still waiting for its agent: neither has to finish first.
C13_ReadyStepsStartTogether ==
    \A t \in TaskIds :
        tasks[t].pc = "gather" =>
            /\ \A i \in StepIds(tasks[t].wf) :
                  (/\ Steps(tasks[t].wf)[i].status = "PENDING"
                   /\ Steps(tasks[t].wf)[i].dependencies \subseteq tasks[t].completed_steps)
                      => tasks[t].children[i] # "none"
            /\ \A i, j \in 1..MaxSteps :
                  (/\ InBatch(t, i, j)
                   /\ tasks[t].children[i] = "wait"
                   /\ tasks[t].children[j] = "new")
                      => ENABLED ExecuteStepBegin(t, j)

\* Two steps of one batch are RUNNING at the same time
C13_Witness ==
    \E t \in TaskIds, i, j \in 1..MaxSteps :
        /\ InBatch(t, i, j)
        /\ tasks[t].children[i] = "wait" /\ tasks[t].children[j] = "wait"
        /\ Steps(tasks[t].wf)[i].status = "RUNNING"
        /\ Steps(tasks[t].wf)[j].status = "RUNNING"
        /\ j \notin Steps(tasks[t].wf)[i].dependencies
        /\ i \notin Steps(tasks[t].wf)[j].dependencies

----------------------------------------------------------------------------
(* C14 *)

\* The agent_type of step i is no key of the agent registry
UnknownAgent(w, i) ==
    Exists(w) /\ i \in StepIds(w) /\ Steps(w)[i].handler = "unknown"

\* C14: a step whose agent_type is not in the registry is attempted at most
\* once and never retried: its retry_count stays 0 and, once its attempt is
\* over, it is FAILED, whatever max_retries is.
C14_UnknownAgentNeverRetried ==
    \A w \in WorkflowIds, i \in 1..MaxSteps :
        UnknownAgent(w, i) =>
            /\ Steps(w)[i].attempts <= 1
            /\ Steps(w)[i].retry_count = 0
            /\ Steps(w)[i].attempts = 1
                  => Steps(w)[i].status \in {"RUNNING", "FAILED"}

----------------------------------------------------------------------------
(* C15 *)

\* Step i is PENDING and all its dependencies are COMPLETED
ReadyNow(w, i) ==
    /\ Exists(w) /\ i \in StepIds(w)
    /\ Steps(w)[i].status = "PENDING"
    /\ \A d \in Steps(w)[i].dependencies :
          d \in StepIds(w) /\ Steps(w)[d].status = "COMPLETED"

NoBudgetLeft(w, i) == Steps(w)[i].retry_count >= Steps(w)[i].max_retries

\* C15: a step failure escalates to workflow FAILED only when that step has
\* no retry budget left and the ready set is empty.
C15_EscalatesOnlyWithoutBudget ==
    \A w \in WorkflowIds :
        (Exists(w) /\ workflows[w].status = "FAILED") =>
            /\ \A i \in StepIds(w) :
                  Steps(w)[i].status = "FAILED" => NoBudgetLeft(w, i)
            /\ \A i \in StepIds(w) : ~ReadyNow(w, i)

\* C15, amended: a step failure escalates to workflow FAILED only when the
\* step will not be tried again (it raised with no retry budget left, or it
\* timed out, which is never retried) and the ready set is empty; while the
\* scheduler is at work the workflow is RUNNING, and a step that is ready
\* (a step reset for a retry included) is started again before that.
C15_EscalatesOnlyWhenNotRetried ==
    /\ [](\A w \in WorkflowIds :
            (Exists(w) /\ workflows[w].status = "FAILED") =>
                /\ Quiet(w)
                /\ \A i \in StepIds(w) :
                      Steps(w)[i].status = "FAILED" =>
                          NoBudgetLeft(w, i) \/ Steps(w)[i].error = "timeout"
                /\ \A i \in StepIds(w) : ~ReadyNow(w, i))
    /\ [](\A t \in TaskIds :
            tasks[t].pc = "gather" => workflows[tasks[t].wf].status = "RUNNING")
    /\ \A w \in WorkflowIds, i \in 1..MaxSteps, a \in 0..MaxRetries :
            (ReadyNow(w, i) /\ Steps(w)[i].attempts = a)
                ~> (Exists(w) /\ i \in StepIds(w) /\ Steps(w)[i].attempts > a)

\* A step that raised was retried while the workflow stayed RUNNING, and
\* the workflow failed once the budget was used up
C15_Witness ==
    \E w \in WorkflowIds :
        /\ Exists(w) /\ Quiet(w)
        /\ workflows[w].status = "FAILED"
        /\ \E i \in StepIds(w) :
              /\ Steps(w)[i].status = "FAILED"
              /\ Steps(w)[i].error = "exception"
              /\ Steps(w)[i].max_retries > 0
              /\ Steps(w)[i].attempts = Steps(w)[i].max_retries + 1

----------------------------------------------------------------------------
(* C16 *)

\* What cancel_workflow may not touch in a step
Outcome(step) ==
    <<step.status, step.result, step.error, step.retry_count>>

\* C16: cancel_workflow on a workflow leaves the status, result, error and
\* retry_count of each of its steps that is COMPLETED or PENDING as they
\* are, and leaves every other workflow of the table as it is.
C16_CancelLeavesOtherStepsAndWorkflows ==
    [][\A w \in TableIds :
          CancelWorkflow(w) =>
              /\ DOMAIN workflows' = DOMAIN workflows
              /\ \A i \in StepIds(w) :
                    Steps(w)[i].status \in {"COMPLETED", "PENDING"}
                        => Outcome(Steps(w)[i])' = Outcome(Steps(w)[i])
              /\ \A v \in (DOMAIN workflows) \ {w} :
                    workflows[v]' = workflows[v]]_vars

\* A cancelled workflow with a completed step and a step not yet started,
\* next to a workflow that is running
C16_Witness ==
    \E w, v \in TableIds :
        /\ w # v /\ Exists(w) /\ Exists(v)
        /\ w \in cancel_returned
        /\ workflows[w].status = "CANCELLED"
        /\ \E i, j \in StepIds(w) :
              /\ Steps(w)[i].status = "COMPLETED" /\ Steps(w)[i].result = "value"
              /\ Steps(w)[j].status = "PENDING"
        /\ workflows[v].status = "RUNNING"

----------------------------------------------------------------------------
(* C17 *)

\* The workflows that are terminal and became terminal more than max_age ago
OldTerminal(max_age) ==
    {w \in DOMAIN workflows :
        /\ workflows[w].status \in Terminal
        /\ workflows[w].terminal_at < now - max_age}

\* C17: cleanup_completed_workflows(max_age) removes from the table exactly
\* the workflows that are terminal (COMPLETED, FAILED or CANCELLED) and
\* became terminal more than max_age ago, however they became terminal,
\* removes no PENDING, RUNNING or PAUSED workflow and returns the number of
\* workflows it removed.
C17_CleanupRemovesOldTerminal ==
    [][\A max_age \in 0..MaxTime :
          CleanupCompletedWorkflows(max_age) =>
              /\ DOMAIN workflows' = (DOMAIN workflows) \ OldTerminal(max_age)
              /\ \A w \in DOMAIN workflows' : workflows[w]' = workflows[w]
              /\ cleanup_returned' = Cardinality(OldTerminal(max_age))]_vars

----------------------------------------------------------------------------
(* C18 *)

\* The call of create_workflow that drew id w is at one of its agent calls
\* or has raised
NotReturned(w) ==
    w \in DOMAIN create_calls /\ create_calls[w] # "returned"

\* That call raises to its caller
RaisesNow(w) ==
    /\ w \in DOMAIN create_calls
    /\ create_calls[w] \in {"analyzer", "planner"}
    /\ create_calls[w]' = "raised"

\* C18: when the intent analysis or the planning raises inside
\* create_workflow, the call raises and leaves the workflow table and the
\* running-task table as they are; a call that has not returned has
\* registered no workflow and started no scheduler task.
C18_FailedCreateRegistersNothing ==
    /\ [][\A w \in TableIds :
            RaisesNow(w) => UNCHANGED <<workflows, running_workflows, tasks>>]_vars
    /\ [](\A w \in TableIds :
            NotReturned(w) =>
                /\ w \notin DOMAIN workflows
                /\ w \notin DOMAIN running_workflows
                /\ \A t \in TaskIds : tasks[t].wf # w)

\* One call raised at its planning while another workflow is registered
\* and has its scheduler task
C18_Witness ==
    \E w, v \in TableIds :
        /\ w # v
        /\ w \in DOMAIN create_calls /\ create_calls[w] = "raised"
        /\ w \notin DOMAIN workflows
        /\ Exists(v) /\ v \in DOMAIN running_workflows
        /\ Len(tasks) = 1

----------------------------------------------------------------------------
(* C19 *)

\* create_workflow registers w now, with steps built by _plan_to_steps
GeneratedNow(w) ==
    ~Exists(w) /\ Exists(w)' /\ workflows[w].generated'

\* ids step_1 .. step_N in plan order, the first step without dependencies
\* and every other step depending on exactly the step before it
LinearChain(steps) ==
    \A k \in 1..Len(steps) :
        /\ steps[k].step_id = k
        /\ steps[k].dependencies =
              IF k = 1 THEN {} ELSE {steps[k - 1].step_id}

\* C19: the steps _plan_to_steps returns have the ids step_1 .. step_N in
\* plan order, are all PENDING with retry_count 0, the first has no
\* dependencies and each other depends on exactly its predecessor; the
\* dependency graph is acyclic and names only steps of the same workflow;
\* the ids and the dependencies stay as built.
C19_PlanToStepsLinearChain ==
    /\ [][\A w \in WorkflowIds :
            GeneratedNow(w) =>
                LET steps == workflows[w].steps'
                IN /\ LinearChain(steps)
                   /\ \A k \in 1..Len(steps) :
                         /\ steps[k].status = "PENDING"
                         /\ steps[k].retry_count = 0
                         /\ steps[k].dependencies
                               \subseteq {steps[j].step_id : j \in 1..Len(steps)}
                   /\ Satisfiable(steps, {}) = 1..Len(steps)]_vars
    /\ [](\A w \in WorkflowIds :
            (Exists(w) /\ workflows[w].generated) => LinearChain(Steps(w)))

\* A workflow just built from a plan of at least three items
C19_Witness ==
    \E w \in WorkflowIds :
        /\ Exists(w) /\ workflows[w].generated
        /\ workflows[w].status = "PENDING"
        /\ Len(Steps(w)) >= 3
        /\ Steps(w)[3].dependencies = {2}

----------------------------------------------------------------------------
(* C20 *)

\* The agent of step i was resolved and _call_agent went on to choose a shape
Called(w, i) ==
    /\ Exists(w) /\ i \in StepIds(w)
    /\ Steps(w)[i].handler # "unknown"
    /\ Steps(w)[i].attempts > 0

\* C20: a call of _call_agent invokes at most one shape, one the agent
\* exposes: process_message if the agent has it, else the method named by
\* the action if it has that, else process_task; on an agent with none of
\* the three it invokes nothing and raises, so the step never completes.
C20_CallShapePriority ==
    \A w \in WorkflowIds, i \in 1..MaxSteps :
        Called(w, i) =>
            LET e == Steps(w)[i].exposes
                inv == Steps(w)[i].invoked
            IN /\ Cardinality(inv) <= 1
               /\ inv \subseteq e
               /\ "process_message" \in e => inv = {"process_message"}
               /\ ("process_message" \notin e /\ "action" \in e) => inv = {"action"}
               /\ (e = {"process_task"}) => inv = {"process_task"}
               /\ (e = {}) =>
                     /\ inv = {}
                     /\ Steps(w)[i].status # "COMPLETED"
                     /\ Steps(w)[i].status # "RUNNING"
                           => Steps(w)[i].error = "exception"

\* An agent without process_message: the method named by the action was
\* chosen over process_task, and the step completed
C20_Witness ==
    \E w \in WorkflowIds, i \in 1..MaxSteps :
        /\ Called(w, i)
        /\ Steps(w)[i].exposes = {"action", "process_task"}
        /\ Steps(w)[i].invoked = {"action"}
        /\ Steps(w)[i].status = "COMPLETED"

----------------------------------------------------------------------------
(* C29 *)

\* C29: a step that fails by timeout becomes FAILED with its retry_count as
\* it was, and from then on stays FAILED with that retry_count: it is never
\* reset to PENDING, whatever retry budget is left; the retry_count of a
\* step only changes, by one, when its handler raised.
C29_TimeoutNeverRetried ==
    /\ [][\A t \in 1..MaxTasks, i \in 1..MaxSteps :
            ExecuteStepEnd(t, i, "timeout") =>
                /\ Steps(tasks[t].wf)[i].status' = "FAILED"
                /\ Steps(tasks[t].wf)[i].retry_count'
                      = Steps(tasks[t].wf)[i].retry_count]_vars
    /\ [][\A w \in WorkflowIds, i \in 1..MaxSteps :
            (TimedOut(w, i) /\ Steps(w)[i].status = "FAILED") =>
                /\ Steps(w)[i].status' = "FAILED"
                /\ Steps(w)[i].retry_count' = Steps(w)[i].retry_count]_vars
    /\ [][\A w \in WorkflowIds, i \in 1..MaxSteps :
            (Exists(w) /\ i \in StepIds(w)
                /\ Steps(w)[i].retry_count' # Steps(w)[i].retry_count) =>
                    /\ Steps(w)[i].error' = "exception"
                    /\ Steps(w)[i].retry_count' = Steps(w)[i].retry_count + 1]_vars

----------------------------------------------------------------------------
(* C27 *)

\* C27: once a step is COMPLETED its status and its result never change
\* and its handler is never invoked again, over any scheduler passes,
\* retries of other steps and pause, resume and cancel calls.
C27_CompletedStepIsFinal ==
    [][\A w \in WorkflowIds, i \in 1..MaxSteps :
          (Exists(w) /\ i \in StepIds(w) /\ Steps(w)[i].status = "COMPLETED") =>
              /\ Steps(w)[i].status' = "COMPLETED"
              /\ Steps(w)[i].result' = Steps(w)[i].result
              /\ Steps(w)[i].attempts' = Steps(w)[i].attempts]_vars

----------------------------------------------------------------------------
(* C28 *)

\* Every step of w can be completed: the dependencies name steps of w and
\* have no cycle
Acyclic(w) == Unsatisfiable(w) = {}

\* resume_workflow has created a scheduler task for w, which is its only
\* scheduler, and the workflow is not paused again
Resumed(w) ==
    /\ Exists(w)
    /\ Cardinality({t \in TaskIds : tasks[t].wf = w}) = 2
    /\ Cardinality(LiveTasks(w)) = 1
    /\ workflows[w].status # "PAUSED"

\* C28: a PAUSED workflow whose agent calls all succeed, once resumed, goes
\* on with the steps that are not COMPLETED, the step that was in flight at
\* the pause included, and ends COMPLETED unless it is paused again; for
\* chains and for any acyclic dependency sets.
C28_ResumedWorkflowCompletes ==
    \A w \in WorkflowIds :
        (Resumed(w) /\ AllOk(w) /\ Acyclic(w))
            ~> (Exists(w) /\ workflows[w].status \in {"COMPLETED", "PAUSED"})

----------------------------------------------------------------------------
(* C21 *)

\* The categories, highest priority first
Priority ==
    <<"memory_store", "planning_request", "knowledge_search", "memory_retrieve",
      "context_continuation", "ui_request", "error_handling">>

\* The highest-priority category among matches (matches is not empty)
Highest(matches) ==
    Priority[CHOOSE n \in DOMAIN Priority :
                /\ Priority[n] \in matches
                /\ \A m \in 1..(n - 1) : Priority[m] \notin matches]

\* process_message has classified its text
Classified == router.pc \in {"routed", "handled", "returned"}

----------------------------------------------------------------------------
(* C22 *)

\* C22: a text that matches no pattern of any of the seven categories is
\* classified general_conversation.
C22_DefaultIsGeneralConversation ==
    (Classified /\ router.matches = {}) =>
        router.message_type = "general_conversation"

----------------------------------------------------------------------------
(* C23 *)

\* C23: process_message never raises and always returns a reply with a
\* response text, whatever the text and whichever collaborator fails; when
\* a collaborator has failed the reply carries the generic apology.
C23_ProcessMessageAlwaysReplies ==
    /\ router.pc # "raised"
    /\ router.pc = "returned" =>
          /\ router.reply # "none"
          /\ router.failed => router.reply = "apology"

----------------------------------------------------------------------------
(* C24 *)

\* validate_message has returned for an object
Validated == a2a.pc = "validated"

\* C24: validate_message returns False, and does not raise, exactly when
\* one of sender, receiver, type, payload is absent or None on the message;
\* otherwise it returns True.
C24_ValidateFalseIffFieldMissing ==
    Validated =>
        (a2a.valid = FALSE <=>
            \E field \in {"sender", "receiver", "type", "payload"} :
                a2a.object[field] \in {"absent", "none"})

\* An object with all four attributes, one of them empty, was found valid
C24_Witness ==
    /\ Validated
    /\ a2a.valid = TRUE
    /\ \E field \in DOMAIN a2a.object : a2a.object[field] = "empty"

----------------------------------------------------------------------------
(* C25 *)

\* The kinds JSON has a value for
JsonNative == {"str", "int", "bool", "none", "list", "dict"}

\* A payload map of JSON-native values all the way down
ValidPayload(payload) ==
    \A n \in DOMAIN payload :
        /\ payload[n].val.k \in JsonNative
        /\ \A m \in DOMAIN payload[n].val.items :
              payload[n].val.items[m].k \in JsonNative

----------------------------------------------------------------------------
(* C26 *)

\* C26: once pause_task has returned True the status is PAUSED and stays
\* PAUSED until resume_task or cancel_task is called for the task, so that
\* a following resume_task returns True.
C26_PausedUntilResumeOrCancel ==
    [][(long_runner.status = "PAUSED" /\ long_runner'.status # "PAUSED")
          => (ResumeTask \/ CancelTaskCall)]_vars

----------------------------------------------------------------------------
(* C30 *)

\* C30: once cancel_task has returned True the status is CANCELLED and
\* never changes again and the handler makes no further progress, whatever
\* create_task, pause_task, resume_task and the coroutines did before.
C30_CancelIsFinal ==
    [][long_runner.cancelled =>
          /\ long_runner.status = "CANCELLED"
          /\ long_runner'.status = "CANCELLED"
          /\ long_runner'.progress = long_runner.progress]_vars

====
